---------------------------- MODULE Spec2Model ----------------------------
(***************************************************************************)
(* A model of pySARAX's Core: the hexagonal core that owns a lattice of    *)
(* assemblies, assigns identifiers (Core.specifyID), builds the global     *)
(* axial mesh and snaps the section bounds onto it (Core.meshing).         *)
(*                                                                         *)
(* Heights are Python floats in the source.  They are modelled as exact    *)
(* rationals <<numerator, denominator>> in lowest terms, so the mean of a  *)
(* cluster of heights is computed, not approximated.  Strings are modelled *)
(* as sequences of code points, compared as Python compares str.           *)
(***************************************************************************)
EXTENDS Integers, Sequences, FiniteSets, TLC

(***************************************************************************)
(* Bounds of the model.                                                    *)
(***************************************************************************)
\* section bounds given by the caller are integers in 0..MaxHeight
MaxHeight == 2
\* at most this many calls of Core.meshing in one behaviour
MaxMeshRuns == 2
\* at most this many edits of a section's bounds after construction
MaxEdits == 1
\* at most this many rings are added to the lattice
MaxRings == 2
\* the largest number of cells of a mesh grid an assembly is written against
MaxCells == 12
\* the largest number of rings of a core whose lattice is traversed and mapped
MaxHexRings == 4
\* the largest height of a section in the meshing cases, in halves
MaxHalves == 4
\* the largest number of layers of a deck given to cormesh
MaxLayers == 3
\* the largest number of cormesh runs
MaxDensifyRuns == 2

(***************************************************************************)
(* Exact rational arithmetic for the heights.                              *)
(***************************************************************************)
RECURSIVE Gcd(_, _)
Gcd(a, b) == IF b = 0 THEN a ELSE Gcd(b, a % b)

IAbs(n) == IF n < 0 THEN -n ELSE n

\* the rational n/d (d # 0) in lowest terms with a positive denominator
Rat(n, d) ==
    LET s == IF d < 0 THEN -1 ELSE 1
        g == Gcd(IAbs(n), IAbs(d))
    IN  <<(s * n) \div g, (s * d) \div g>>

RInt(n) == <<n, 1>>
RAdd(a, b) == Rat(a[1] * b[2] + b[1] * a[2], a[2] * b[2])
RSub(a, b) == Rat(a[1] * b[2] - b[1] * a[2], a[2] * b[2])
RAbs(a) == <<IAbs(a[1]), a[2]>>
RDivInt(a, n) == Rat(a[1], a[2] * n)
RLt(a, b) == a[1] * b[2] < b[1] * a[2]
RLe(a, b) == a[1] * b[2] <= b[1] * a[2]

\* min() and max() of a non-empty set of heights
RMin(S) == CHOOSE x \in S : \A y \in S : RLe(x, y)
RMax(S) == CHOOSE x \in S : \A y \in S : RLe(y, x)

RECURSIVE RSum(_)
RSum(S) == IF S = {} THEN RInt(0)
           ELSE LET x == CHOOSE y \in S : TRUE IN RAdd(x, RSum(S \ {x}))

\* sorted(list(heights)) and np.sort(meshgrid): the ascending sequence of a set
RECURSIVE SortAscending(_)
SortAscending(S) ==
    IF S = {} THEN << >>
    ELSE LET m == RMin(S) IN <<m>> \o SortAscending(S \ {m})

Range(q) == {q[i] : i \in 1..Len(q)}


(***************************************************************************)
(* Strings: sequences of code points, ordered as Python orders str.        *)
(***************************************************************************)
RECURSIVE StrLt(_, _)
StrLt(a, b) ==
    IF b = << >> THEN FALSE
    ELSE IF a = << >> THEN TRUE
    ELSE IF a[1] < b[1] THEN TRUE
    ELSE IF a[1] > b[1] THEN FALSE
    ELSE StrLt(Tail(a), Tail(b))

\* ' '.join((x, y))
JoinSpace(x, y) == x \o <<32>> \o y

\* the equivalence methods "homo", "1-D" and "supercell"
Homo == <<104, 111, 109, 111>>
OneD == <<49, 45, 68>>
Supercell == <<115, 117, 112, 101, 114, 99, 101, 108, 108>>

(***************************************************************************)
(* The objects of a model: identities of the Section, Assembly and         *)
(* Material objects the caller constructs.  The core's coolant section is  *)
(* the Section given to Core.__init__.                                     *)
(***************************************************************************)
UserSections == {"s1", "s2", "s3"}
coolant == "coolant"
Sections == UserSections \cup {coolant}
Assemblies == {"a1", "a2"}
Materials == {"m1", "m2", "m3"}
None == "None"

VARIABLES
    \* Core
    ring,           \* Core.ring: the declared number of rings
    lattice,        \* Core.lattice: a sequence of rings, each a sequence of assemblies
    meshgrid,       \* Core.meshgrid: a sequence of heights
    completed,      \* Core.completed
    assemblies,     \* Core.assemblies: the sorted list specifyID stores
    sections,       \* Core.sections
    materials,      \* Core.materials
    \* Assembly
    assemblyId,     \* Assembly.id, -1 when unset
    assemblyRK,     \* Assembly.r and Assembly.k
    location,       \* Assembly.location
    assemblySections, \* Assembly.sections
    \* Section
    sectionId,      \* Section.id, -1 when unset
    sectionRK,      \* Section.r and Section.k
    sectionName,    \* Section.name
    eqMethod,       \* Section.eqMethod
    scSection,      \* Section.scSection, None when unset
    bounds,         \* Section.bounds: <<lower, upper>>
    rod,            \* Section.rod: the materials of its (size, material) entries
    region,         \* Section.region
    \* Material
    materialId,     \* Material.id, -1 when unset
    materialName,   \* Material.name
    \* the call that was made last and how it ended
    last,
    \* how many meshing calls and bound edits were made
    meshRuns,
    edits,
    \* what the serializer that was called last wrote; for cormesh, the files on disk
    deck

coreVars == <<ring, lattice, meshgrid, completed, assemblies, sections, materials>>
idVars == <<assemblyId, assemblyRK, sectionId, sectionRK, materialId>>
entityVars == <<location, sectionName, eqMethod, scSection, rod, region, materialName>>
vars == <<coreVars, idVars, entityVars, assemblySections, bounds, last, meshRuns, edits, deck>>

\* nothing was written yet, or the serializer raised
NoDeck == [op |-> "none"]

\* a call and its outcome: returned normally (ok) or raised
Call(op, ok, tol) == [op |-> op, ok |-> ok, tolerance |-> tol]

(***************************************************************************)
(* Core.meshing                                                            *)
(***************************************************************************)
\* the set of the axial heights of the sections in Core.sections
CollectHeights(secs, bnd) ==
    {bnd[s][1] : s \in Range(secs)} \cup {bnd[s][2] : s \in Range(secs)}

\* sum(approxBuffer) / len(approxBuffer)
AverageHeight(approxBuffer) == RDivInt(RSum(approxBuffer), Cardinality(approxBuffer))

\* the comparison with the highest height of the buffer alone
JoinsBufferHigherOnly(height, approxBuffer, tolerance) ==
    RLe(RAbs(RSub(height, RMax(approxBuffer))), tolerance)

\* abs(height - lower) <= tolerance and abs(height - higher) <= tolerance
JoinsBuffer(height, approxBuffer, tolerance) ==
    /\ RLe(RAbs(RSub(height, RMin(approxBuffer))), tolerance)
    /\ RLe(RAbs(RSub(height, RMax(approxBuffer))), tolerance)

\* the loop over the sorted heights, from heights[i] on, and the final flush
RECURSIVE Approximate(_, _, _, _, _)
Approximate(heights, i, approxBuffer, grid, tolerance) ==
    IF i > Len(heights)
    THEN IF approxBuffer # {} THEN grid \cup {AverageHeight(approxBuffer)} ELSE grid
    ELSE LET height == heights[i] IN
         IF approxBuffer = {}
         THEN Approximate(heights, i + 1, {height}, grid, tolerance)
         ELSE IF JoinsBuffer(height, approxBuffer, tolerance)
         THEN Approximate(heights, i + 1, approxBuffer \cup {height}, grid, tolerance)
         ELSE Approximate(heights, i + 1, {height},
                          grid \cup {AverageHeight(approxBuffer)}, tolerance)

\* np.sort(np.array(list(meshgrid))) with the elements in descending order
SortDescending(S) ==
    LET up == SortAscending(S) IN [i \in 1..Len(up) |-> up[Len(up) + 1 - i]]

\* np.sort(np.array(list(meshgrid)))
SortMesh(S) == SortAscending(S)

\* the mesh grid built from the heights of the sections
BuildMesh(secs, bnd, tolerance) ==
    SortMesh(Approximate(SortAscending(CollectHeights(secs, bnd)), 1, {}, {}, tolerance))

\* abs(gridHeight - bound) > 0 and abs(gridHeight - bound) <= tolerance
TooClose(gridHeight, bound, tolerance) ==
    LET d == RAbs(RSub(gridHeight, bound)) IN RLt(RInt(0), d) /\ RLe(d, tolerance)

\* one bound of a section through the loop over the grid heights, from grid[j] on
RECURSIVE SnapBound(_, _, _, _)
SnapBound(bound, grid, j, tolerance) ==
    IF j > Len(grid) THEN bound
    ELSE SnapBound(IF TooClose(grid[j], bound, tolerance) THEN grid[j] ELSE bound,
                   grid, j + 1, tolerance)

\* the loop "for i in range(2)" cut to the lower bound
SnapLowerOnly(bnds, grid, tolerance) ==
    <<SnapBound(bnds[1], grid, 1, tolerance), bnds[2]>>

\* both bounds of a section after the approximation loop
SnapSection(bnds, grid, tolerance) ==
    <<SnapBound(bnds[1], grid, 1, tolerance), SnapBound(bnds[2], grid, 1, tolerance)>>

\* the bounds of all sections after the approximation loop
SnapAll(secs, bnd, grid, tolerance) ==
    [s \in Sections |-> IF s \in Range(secs) THEN SnapSection(bnd[s], grid, tolerance)
                        ELSE bnd[s]]

(***************************************************************************)
(* Assembly.check and Core.check                                           *)
(***************************************************************************)
\* sorted(..., key=lambda x: x.bounds[0]): Python's sort is stable
RECURSIVE InsertByLower(_, _, _)
InsertByLower(sorted, s, bnd) ==
    IF sorted = << >> THEN <<s>>
    ELSE LET n == Len(sorted) IN
         IF RLe(bnd[sorted[n]][1], bnd[s][1]) THEN Append(sorted, s)
         ELSE Append(InsertByLower(SubSeq(sorted, 1, n - 1), s, bnd), sorted[n])

RECURSIVE SortByLower(_, _)
SortByLower(secs, bnd) ==
    IF secs = << >> THEN << >>
    ELSE LET n == Len(secs) IN
         InsertByLower(SortByLower(SubSeq(secs, 1, n - 1), bnd), secs[n], bnd)

\* Assembly.check on the sorted sections: each section starts where the previous ends
AssemblyCheck(sorted, bnd) ==
    \A i \in 2..Len(sorted) : bnd[sorted[i - 1]][2] = bnd[sorted[i]][1]

PlacedAssemblies(lat) == UNION {Range(lat[r]) : r \in 1..Len(lat)}

\* Assembly.sections of every assembly after Core.check: those in the lattice are sorted
CheckedSections(lat, asmSecs, bnd) ==
    [a \in Assemblies |-> IF a \in PlacedAssemblies(lat) THEN SortByLower(asmSecs[a], bnd)
                          ELSE asmSecs[a]]

\* the value Core.check returns
CoreCheck(lat, asmSecs, bnd) ==
    /\ ring = Len(lat)
    /\ \A r \in 1..Len(lat) : Len(lat[r]) = (IF r > 1 THEN 6 * (r - 1) ELSE 1)
    /\ \A a \in PlacedAssemblies(lat) : AssemblyCheck(SortByLower(asmSecs[a], bnd), bnd)

(***************************************************************************)
(* Core.specifyID                                                          *)
(***************************************************************************)
\* the (r, k) slots of the lattice, 0-based as in the source
Slots(lat) == {<<r, k>> \in (0..Len(lat)) \X (0..6 * Len(lat)) :
                  r < Len(lat) /\ k < Len(lat[r + 1])}

At(lat, slot) == lat[slot[1] + 1][slot[2] + 1]

\* the slot the traversal visits last among a non-empty set of slots
LastSlot(S) ==
    CHOOSE x \in S : \A y \in S : y[1] < x[1] \/ (y[1] = x[1] /\ y[2] <= x[2])

\* the sections of the assemblies placed in the lattice
VisitedSections(lat, asmSecs) ==
    UNION {Range(asmSecs[a]) : a \in PlacedAssemblies(lat)}

\* the set "sections" before it is sorted
CollectSections(lat, asmSecs) ==
    VisitedSections(lat, asmSecs)
      \cup {scSection[s] : s \in {x \in VisitedSections(lat, asmSecs) : eqMethod[x] = Supercell}}
      \cup {coolant}

\* the set "materials" before it is sorted
CollectMaterials(lat, asmSecs) ==
    UNION {Range(rod[s]) \cup Range(region[s]) : s \in VisitedSections(lat, asmSecs)}
      \cup Range(region[coolant])

\* the sort keys
AssemblyKey(a) == location[a]
SectionKey(s) == JoinSpace(eqMethod[s], sectionName[s])
MaterialKey(m) == materialName[m]

\* the keys as the lambdas of sorted(..., key=lambda x: ...) give them
AssemblyKeys == [a \in Assemblies |-> AssemblyKey(a)]
SectionKeys == [s \in Sections |-> SectionKey(s)]
MaterialKeys == [m \in Materials |-> MaterialKey(m)]

\* the elements of S no other element's key is strictly below
Smallest(S, key) == {x \in S : \A y \in S : ~StrLt(key[y], key[x])}

\* sorted(list(S), key=...): list(S) is in the set's iteration order, which the
\* objects' addresses decide, and the stable sort keeps it among equal keys; so
\* every order of S with non-decreasing keys is a possible result
SortedLists(S, key) ==
    LET RECURSIVE Orders(_)
        Orders(T) ==
            IF T = {} THEN {<< >>}
            ELSE UNION {{<<x>> \o q : q \in Orders(T \ {x})} : x \in Smallest(T, key)}
    IN  Orders(S)

\* "x.id = i" for the i-th element of enumerate(...), 0-based
IdAtZeroBased(i) == i - 1

\* "x.id = i + 1" for the i-th element of enumerate(...); i is the 1-based position here
IdAt(i) == i

\* the ids of the objects of one kind after the assignment loop over the sorted list
AssignIds(old, sorted) ==
    [x \in DOMAIN old |->
        IF x \in Range(sorted) THEN IdAt(CHOOSE i \in 1..Len(sorted) : sorted[i] = x)
        ELSE old[x]]

\* the r and k every visited assembly is left with
AssignAssemblyRK(lat) ==
    [a \in Assemblies |->
        IF a \in PlacedAssemblies(lat)
        THEN LastSlot({x \in Slots(lat) : At(lat, x) = a})
        ELSE assemblyRK[a]]

\* the r and k every visited section is left with
AssignSectionRK(lat, asmSecs) ==
    [s \in Sections |->
        IF s \in VisitedSections(lat, asmSecs)
        THEN LastSlot({x \in Slots(lat) : s \in Range(asmSecs[At(lat, x)])})
        ELSE sectionRK[s]]

\* the whole of specifyID, run on the assemblies' section lists asmSecs
SpecifyIDEffect(asmSecs) ==
    \E sortedAssemblies \in SortedLists(PlacedAssemblies(lattice), AssemblyKeys),
       sortedSections \in SortedLists(CollectSections(lattice, asmSecs), SectionKeys),
       sortedMaterials \in SortedLists(CollectMaterials(lattice, asmSecs), MaterialKeys) :
        /\ assemblyRK' = AssignAssemblyRK(lattice)
        /\ sectionRK' = AssignSectionRK(lattice, asmSecs)
        /\ assemblyId' = AssignIds(assemblyId, sortedAssemblies)
        /\ sectionId' = AssignIds(sectionId, sortedSections)
        /\ materialId' = AssignIds(materialId, sortedMaterials)
        /\ assemblies' = sortedAssemblies
        /\ sections' = sortedSections
        /\ materials' = sortedMaterials

(***************************************************************************)
(* The inputs of the calls.                                                *)
(***************************************************************************)
\* the bounds a caller gives a section: integers with lower < upper
CallerBounds ==
    {<<RInt(lo), RInt(hi)>> : <<lo, hi>> \in {x \in (0..MaxHeight) \X (0..MaxHeight) : x[1] < x[2]}}

\* Section.__init__: self.bounds = (0., 0.)
DefaultBounds == <<RInt(0), RInt(0)>>

\* the tolerances meshing is called with: -1/2, 0, 1/2 and 3/2
Tolerances == {Rat(-1, 2), RInt(0), Rat(1, 2), Rat(3, 2)}

NoTolerance == RInt(0)

\* the number of assemblies in the r-th ring of a hexagonal lattice (r = 1 is the centre)
RingSize(r) == IF r > 1 THEN 6 * (r - 1) ELSE 1

\* the ring a caller adds as the r-th ring: a1 in the centre, a2 in every other slot
CallerRings(r) == {[k \in 1..RingSize(r) |-> IF r = 1 THEN "a1" ELSE "a2"]}

(***************************************************************************)
(* The operations.                                                         *)
(***************************************************************************)
\* Core.addRing(ring)
AddRing(newRing) ==
    /\ Len(lattice) < MaxRings
    /\ lattice' = Append(lattice, newRing)
    /\ last' = Call("addRing", TRUE, NoTolerance)
    /\ UNCHANGED <<ring, meshgrid, completed, assemblies, sections, materials>>
    /\ UNCHANGED <<idVars, entityVars, assemblySections, bounds, meshRuns, edits, deck>>

\* Core.specifyID()
SpecifyID ==
    /\ SpecifyIDEffect(assemblySections)
    /\ last' = Call("specifyID", TRUE, NoTolerance)
    /\ UNCHANGED <<ring, lattice, meshgrid, completed>>
    /\ UNCHANGED <<entityVars, assemblySections, bounds, meshRuns, edits, deck>>

\* Core.complete(): check() sorts the sections of the placed assemblies; specifyID
\* runs only when the check passes
Complete ==
    /\ assemblySections' = CheckedSections(lattice, assemblySections, bounds)
    /\ IF CoreCheck(lattice, assemblySections, bounds)
       THEN /\ SpecifyIDEffect(assemblySections')
            /\ completed' = TRUE
            /\ last' = Call("complete", TRUE, NoTolerance)
       ELSE /\ last' = Call("complete", FALSE, NoTolerance)
            /\ UNCHANGED <<completed, assemblies, sections, materials, idVars>>
    /\ UNCHANGED <<ring, lattice, meshgrid, entityVars, bounds, meshRuns, edits, deck>>

\* what Core.meshing(tolerance) does to the core and its sections: min() of an empty
\* mesh grid raises after self.meshgrid is set
MeshingCall(tolerance) ==
    /\ meshRuns < MaxMeshRuns
    /\ meshRuns' = meshRuns + 1
    /\ LET grid == BuildMesh(sections, bounds, tolerance)
           snapped == SnapAll(sections, bounds, grid, tolerance)
       IN  /\ meshgrid' = grid
           /\ IF grid = << >>
              THEN /\ bounds' = snapped
                   /\ last' = Call("meshing", FALSE, tolerance)
              ELSE /\ bounds' = [snapped EXCEPT ![coolant] = <<grid[1], grid[Len(grid)]>>]
                   /\ last' = Call("meshing", TRUE, tolerance)
    /\ UNCHANGED <<ring, lattice, completed, assemblies, sections, materials>>
    /\ UNCHANGED <<idVars, entityVars, assemblySections, edits>>

\* Core.meshing(tolerance)
Meshing(tolerance) == MeshingCall(tolerance) /\ UNCHANGED deck

\* Core.meshing(tolerance), with the sorted list "heights" it collected and the bounds
\* the sections had when it was called kept for the properties
MeshingLogged(tolerance) ==
    /\ MeshingCall(tolerance)
    /\ deck' = [op |-> "meshing",
                heights |-> SortAscending(CollectHeights(sections, bounds)),
                before |-> bounds]

\* the caller gives a section new bounds: section.bounds = (lower, upper)
SetBounds(s, newBounds) ==
    /\ 0 < meshRuns /\ meshRuns < MaxMeshRuns
    /\ edits < MaxEdits
    /\ edits' = edits + 1
    /\ bounds' = [bounds EXCEPT ![s] = newBounds]
    /\ last' = Call("setBounds", TRUE, NoTolerance)
    /\ UNCHANGED <<coreVars, idVars, entityVars, assemblySections, meshRuns, deck>>

(***************************************************************************)
(* The state after construction: the entities the caller built, and a new  *)
(* Core.                                                                   *)
(***************************************************************************)
NewCore(declaredRings, rings) ==
    /\ ring = declaredRings
    /\ lattice = rings
    /\ meshgrid = << >>
    /\ completed = FALSE
    /\ assemblies = << >>
    /\ sections = << >>
    /\ materials = << >>
    /\ assemblyId = [a \in Assemblies |-> -1]
    /\ assemblyRK = [a \in Assemblies |-> <<-1, -1>>]
    /\ sectionId = [s \in Sections |-> -1]
    /\ sectionRK = [s \in Sections |-> <<-1, -1>>]
    /\ materialId = [m \in Materials |-> -1]
    /\ last = Call("init", TRUE, NoTolerance)
    /\ meshRuns = 0
    /\ edits = 0
    /\ deck = NoDeck

\* one set of entities: assembly a1 holds s1 and the supercell section s2, whose
\* partner s3 is the section of assembly a2 and spans the same heights as s2;
\* the bounds of s1 and s2 vary; the caller has set core.lattice = [[a1]]
Init ==
    /\ NewCore(1, << <<"a1">> >>)
    /\ location = [a \in Assemblies |-> IF a = "a1" THEN <<48, 49>> ELSE <<48, 50>>]
    /\ assemblySections = [a \in Assemblies |-> IF a = "a1" THEN <<"s1", "s2">> ELSE <<"s3">>]
    /\ sectionName = ("s1" :> <<97>>) @@ ("s2" :> <<98>>) @@ ("s3" :> <<99>>) @@ (coolant :> <<119>>)
    /\ eqMethod = ("s1" :> Homo) @@ ("s2" :> Supercell) @@ ("s3" :> OneD) @@ (coolant :> Homo)
    /\ scSection = ("s1" :> None) @@ ("s2" :> "s3") @@ ("s3" :> None) @@ (coolant :> None)
    /\ rod = ("s1" :> << >>) @@ ("s2" :> <<"m1">>) @@ ("s3" :> << >>) @@ (coolant :> << >>)
    /\ region = ("s1" :> <<"m1">>) @@ ("s2" :> <<"m2">>) @@ ("s3" :> <<"m3">>) @@ (coolant :> <<"m2">>)
    /\ materialName = ("m1" :> <<97>>) @@ ("m2" :> <<98>>) @@ ("m3" :> <<99>>)
    /\ \E b1, b2 \in CallerBounds :
          bounds = ("s1" :> b1) @@ ("s2" :> b2) @@ ("s3" :> b2) @@ (coolant :> DefaultBounds)

Next ==
    \/ SpecifyID
    \/ \E tolerance \in Tolerances : Meshing(tolerance)
    \/ \E s \in UserSections, newBounds \in CallerBounds : SetBounds(s, newBounds)

Spec == Init /\ [][Next]_vars

(***************************************************************************)
(* Identifier assignment: the same entities with fixed bounds, and names,  *)
(* equivalence methods and locations that vary and may coincide.           *)
(***************************************************************************)
\* the names "a" and "ab"
Names == {<<97>>, <<97, 98>>}

InitID ==
    /\ \E declaredRings \in 1..MaxRings : NewCore(declaredRings, << >>)
    /\ assemblySections = [a \in Assemblies |-> IF a = "a1" THEN <<"s1", "s2">> ELSE <<"s3">>]
    /\ scSection = ("s1" :> None) @@ ("s2" :> "s3") @@ ("s3" :> None) @@ (coolant :> None)
    /\ rod = ("s1" :> << >>) @@ ("s2" :> <<"m1">>) @@ ("s3" :> << >>) @@ (coolant :> << >>)
    /\ region = ("s1" :> <<"m1">>) @@ ("s2" :> <<"m2">>) @@ ("s3" :> <<"m3">>) @@ (coolant :> <<"m2">>)
    /\ bounds = ("s1" :> <<RInt(0), RInt(1)>>) @@ ("s2" :> <<RInt(1), RInt(2)>>)
                  @@ ("s3" :> <<RInt(1), RInt(2)>>) @@ (coolant :> DefaultBounds)
    /\ \E l2 \in {<<48, 49>>, <<48, 50>>} :
          location = ("a1" :> <<48, 49>>) @@ ("a2" :> l2)
    /\ \E n3 \in Names :
          sectionName = ("s1" :> <<97>>) @@ ("s2" :> <<97, 98>>) @@ ("s3" :> n3) @@ (coolant :> <<97, 98>>)
    /\ \E e1, e3 \in {Homo, OneD} :
          eqMethod = ("s1" :> e1) @@ ("s2" :> Supercell) @@ ("s3" :> e3) @@ (coolant :> Homo)
    /\ \E n3 \in Names :
          materialName = ("m1" :> <<97>>) @@ ("m2" :> <<97, 98>>) @@ ("m3" :> n3)

NextID ==
    \/ \E newRing \in CallerRings(Len(lattice) + 1) : AddRing(newRing)
    \/ SpecifyID
    \/ Complete

SpecID == InitID /\ [][NextID]_vars

(***************************************************************************)
(* Formatting and parsing of the integers and the "count*id" entries the   *)
(* serializers write.                                                      *)
(***************************************************************************)
RECURSIVE NatToStr(_)
NatToStr(n) == IF n < 10 THEN <<48 + n>> ELSE NatToStr(n \div 10) \o <<48 + (n % 10)>>

\* "{:d}".format(n)
IntToStr(n) == IF n < 0 THEN <<45>> \o NatToStr(-n) ELSE NatToStr(n)

RECURSIVE DigitsToNat(_, _)
DigitsToNat(s, acc) ==
    IF s = << >> THEN acc ELSE DigitsToNat(Tail(s), 10 * acc + (Head(s) - 48))

\* int(s) for a string of digits with an optional sign
StrToInt(s) == IF Head(s) = 45 THEN -DigitsToNat(Tail(s), 0) ELSE DigitsToNat(s, 0)

Star == <<42>>

\* '*' in s
HasStar(s) == \E i \in 1..Len(s) : s[i] = 42

\* s.split('*'): the pieces between the stars
RECURSIVE SplitStar(_, _, _)
SplitStar(s, piece, pieces) ==
    IF s = << >> THEN Append(pieces, piece)
    ELSE IF Head(s) = 42 THEN SplitStar(Tail(s), << >>, Append(pieces, piece))
    ELSE SplitStar(Tail(s), Append(piece, Head(s)), pieces)

Split(s) == SplitStar(s, << >>, << >>)

\* int(entry.split('*')[-1]): the id of an entry
EntryId(entry) == LET pieces == Split(entry) IN StrToInt(pieces[Len(pieces)])

\* "{:d}*{:d}".format(count, id)
CountTimesId(count, id) == IntToStr(count) \o Star \o IntToStr(id)

\* an entry that never counts beyond two cells
OneMoreStuck(entry, id) == CountTimesId(2, id)

\* an entry that stands for one more cell of the same id
OneMore(entry, id) ==
    IF HasStar(entry) THEN CountTimesId(1 + StrToInt(Split(entry)[1]), id)
    ELSE CountTimesId(2, id)

(***************************************************************************)
(* Assembly.toLAVENDER(meshgrid, coolant)                                  *)
(***************************************************************************)
\* the loop over self.sections for the cell (lower, upper): the two flags when the
\* loop ends, and the section in which the loop was left by break (None: not left)
RECURSIVE ScanSections(_, _, _, _, _, _, _)
ScanSections(secs, j, isUnderAssembly, isAboveAssembly, lower, upper, bnd) ==
    IF j > Len(secs)
    THEN [isUnderAssembly |-> isUnderAssembly, isAboveAssembly |-> isAboveAssembly, sec |-> None]
    ELSE LET sec == secs[j]
             under == isUnderAssembly /\ ~RLe(bnd[sec][1], lower)
             above == isAboveAssembly /\ ~RLe(upper, bnd[sec][2])
         IN  IF RLe(bnd[sec][1], lower) /\ RLe(upper, bnd[sec][2])
             THEN [isUnderAssembly |-> under, isAboveAssembly |-> above, sec |-> sec]
             ELSE ScanSections(secs, j + 1, under, above, lower, upper, bnd)

\* idlist after the cell was found inside a section with this id
AddSectionCell(idlist, id) ==
    IF idlist = << >> THEN <<IntToStr(id)>>
    ELSE IF EntryId(idlist[Len(idlist)]) = id
    THEN [idlist EXCEPT ![Len(idlist)] = OneMore(idlist[Len(idlist)], id)]
    ELSE Append(idlist, IntToStr(id))

\* the coolant cell appended without the merge
AddCoolantCellUnmerged(idlist, coolantId) == Append(idlist, IntToStr(coolantId))

\* idlist after a cell under or above the assembly was filled with the coolant
AddCoolantCell(idlist, coolantId) ==
    LET added == Append(idlist, IntToStr(coolantId))
        n == Len(added)
    IN  IF n > 1 /\ EntryId(added[n - 1]) = coolantId
        THEN [i \in 1..(n - 1) |->
                 IF i = n - 1 THEN OneMore(added[n - 1], coolantId) ELSE added[i]]
        ELSE added

\* idlist after the cell (grid[idx], grid[idx + 1])
AddCell(idlist, secs, grid, idx, bnd, ids) ==
    LET scan == ScanSections(secs, 1, TRUE, TRUE, grid[idx], grid[idx + 1], bnd)
        inSection == IF scan.sec = None THEN idlist ELSE AddSectionCell(idlist, ids[scan.sec])
    IN  IF scan.isUnderAssembly \/ scan.isAboveAssembly
        THEN AddCoolantCell(inSection, ids[coolant])
        ELSE inSection

\* idlist after the cells idx, idx + 1, ... of the mesh grid
RECURSIVE AddCells(_, _, _, _, _, _)
AddCells(idlist, secs, grid, idx, bnd, ids) ==
    IF idx > Len(grid) - 1 THEN idlist
    ELSE AddCells(AddCell(idlist, secs, grid, idx, bnd, ids), secs, grid, idx + 1, bnd, ids)

\* the idlist Assembly.toLAVENDER joins into its record
AssemblyRecord(secs, grid, bnd, ids) == AddCells(<< >>, secs, grid, 1, bnd, ids)

\* reading a record back as cormesh does: the id of every cell, entry by entry
ExpandEntry(entry) ==
    IF HasStar(entry)
    THEN [i \in 1..StrToInt(Split(entry)[1]) |-> EntryId(entry)]
    ELSE <<EntryId(entry)>>

RECURSIVE Expand(_)
Expand(record) ==
    IF record = << >> THEN << >> ELSE ExpandEntry(Head(record)) \o Expand(Tail(record))

(***************************************************************************)
(* Core.toTULIP                                                            *)
(***************************************************************************)
\* the digit of the equivalence method: "1", "2" or "3"
GeomKindOf(s) ==
    IF eqMethod[s] = Homo THEN <<49>> ELSE IF eqMethod[s] = OneD THEN <<50>> ELSE <<51>>

\* geom_kind after the sections j, j + 1, ... of Core.sections
RECURSIVE GeomKind(_, _, _)
GeomKind(secs, j, geom_kind) ==
    IF j > Len(secs) THEN geom_kind
    ELSE LET gk == GeomKindOf(secs[j])
             n == Len(geom_kind)
             prev == geom_kind[n]
         IN  IF n > 0 /\ <<prev[Len(prev)]>> = gk
             THEN GeomKind(secs, j + 1,
                      [geom_kind EXCEPT ![n] =
                          IF ~HasStar(prev) THEN <<50>> \o Star \o gk
                          ELSE IntToStr(1 + StrToInt(SubSeq(prev, 1, Len(prev) - 2))) \o Star \o gk])
             ELSE GeomKind(secs, j + 1, Append(geom_kind, gk))

\* the ids of the materials of a rod or region list, as Section.toTULIP writes them
MaterialIdsOf(list) == [i \in 1..Len(list) |-> materialId[list[i]]]

\* what Section.toTULIP(sc) writes for a section: its "mat<id>" header (not for the
\* partner written with sc = True) and the rod_mat and region_mat lines
SectionToTULIP(s, sc) ==
    [mat |-> IF sc THEN << >> ELSE <<sectionId[s]>>,
     rod_mat |-> MaterialIdsOf(rod[s]),
     region_mat |-> MaterialIdsOf(region[s])]

\* the GEOMETRY blocks: a block per section, followed by the partner's for a
\* supercell section
RECURSIVE Geometry(_, _)
Geometry(secs, j) ==
    IF j > Len(secs) THEN << >>
    ELSE (IF eqMethod[secs[j]] = Supercell
          THEN <<SectionToTULIP(secs[j], FALSE), SectionToTULIP(scSection[secs[j]], TRUE)>>
          ELSE <<SectionToTULIP(secs[j], FALSE)>>) \o Geometry(secs, j + 1)

\* Section.toTULIP raises for a section without id; so does Material.toTULIP
TULIPRaises ==
    \/ \E s \in Range(sections) :
          \/ sectionId[s] = -1
          \/ eqMethod[s] = Supercell /\ (scSection[s] = None \/ sectionId[scSection[s]] = -1)
    \/ \E m \in Range(materials) : materialId[m] = -1

\* Core.toTULIP()
ToTULIP ==
    /\ IF ~completed \/ TULIPRaises
       THEN /\ last' = Call("toTULIP", FALSE, NoTolerance)
            /\ deck' = NoDeck
       ELSE /\ last' = Call("toTULIP", TRUE, NoTolerance)
            /\ deck' = [op |-> "toTULIP",
                        n_mat |-> Len(sections),
                        n_material |-> Len(materials),
                        geom_kind |-> GeomKind(sections, 1, << >>),
                        geometry |-> Geometry(sections, 1),
                        material |-> [i \in 1..Len(materials) |-> materialId[materials[i]]]]
    /\ UNCHANGED <<coreVars, idVars, entityVars, assemblySections, bounds, meshRuns, edits>>

(***************************************************************************)
(* Core.toLAVENDER                                                         *)
(***************************************************************************)
\* a sign that is never negative
SignOfAbs(n) == IF n = 0 THEN 0 ELSE 1

\* np.sign(n)
Sign(n) == IF n > 0 THEN 1 ELSE IF n < 0 THEN -1 ELSE 0

\* the (r, k) pairs the traversal reads in row l of a core of R rings, in the order
\* it reads them; l, r and k are 0-based as in the source
RowSlots(R, l) ==
    LET dis2centerLine == IAbs(R - 1 - l)
        n == R - 1 - dis2centerLine
        outerToInner == [i \in 1..n |-> <<(R - 1) - (i - 1), 5 * ((R - 1) - (i - 1)) + (i - 1) - l>>]
        r == dis2centerLine
        kCenterLine == IF r > 0 THEN 4 * r ELSE 1
        innermost == [i \in 1..dis2centerLine |->
                         <<r, kCenterLine + (r + (i - 1)) * Sign(R - 1 - l)>>]
        onLine == <<r, IF R - 1 - l < 0 THEN 2 * dis2centerLine ELSE 0>>
        innerToOuter == [i \in 1..n |->
                            <<1 + (i - 1) + dis2centerLine,
                              l + (1 + (i - 1) + dis2centerLine) + 1 - R>>]
    IN  outerToInner \o innermost \o <<onLine>> \o innerToOuter

\* the rows 0 .. 2R-2
HexConf(R) == [i \in 1..(2 * R - 1) |-> RowSlots(R, i - 1)]

\* lat[r][k] can be read: a negative k counts from the end of the ring
Readable(lat, slot) ==
    /\ slot[1] >= 0 /\ slot[1] < Len(lat)
    /\ slot[2] >= -Len(lat[slot[1] + 1]) /\ slot[2] < Len(lat[slot[1] + 1])

\* lat[r][k]
Read(lat, slot) ==
    LET theRing == lat[slot[1] + 1]
    IN  IF slot[2] < 0 THEN theRing[Len(theRing) + slot[2] + 1] ELSE theRing[slot[2] + 1]

\* "{:.4f}".format(h) for h >= 0, as the number of 0.0001 it shows (ties to even)
ToFixed4(h) ==
    LET n == h[1] * 10000
        q == n \div h[2]
        twice == 2 * (n % h[2])
    IN  IF twice > h[2] \/ (twice = h[2] /\ q % 2 = 1) THEN q + 1 ELSE q

\* np.diff(self.meshgrid), formatted
Layers(grid) == [i \in 1..(Len(grid) - 1) |-> ToFixed4(RSub(grid[i + 1], grid[i]))]

\* sorted(list, key=lambda x: x.id) for a list specifyID stored: its ids differ
SortedById(list, ids) ==
    [i \in 1..Len(list) |->
        CHOOSE x \in Range(list) : Cardinality({y \in Range(list) : ids[y] < ids[x]}) = i - 1]

\* the traversal reads a slot the lattice does not have
LAVENDERRaises == \E i \in 1..(2 * ring - 1) : \E j \in 1..Len(HexConf(ring)[i]) :
                      ~Readable(lattice, HexConf(ring)[i][j])

\* Core.toLAVENDER()
ToLAVENDER ==
    /\ IF ~completed \/ LAVENDERRaises
       THEN /\ last' = Call("toLAVENDER", FALSE, NoTolerance)
            /\ deck' = NoDeck
       ELSE /\ last' = Call("toLAVENDER", TRUE, NoTolerance)
            /\ deck' = [op |-> "toLAVENDER",
                        mat_file |-> LET byId == SortedById(sections, sectionId)
                                     IN  [i \in 1..Len(byId) |-> sectionId[byId[i]]],
                        layer |-> Layers(meshgrid),
                        FA_type |-> LET byId == SortedById(assemblies, assemblyId)
                                    IN  [i \in 1..Len(byId) |->
                                            [id |-> assemblyId[byId[i]],
                                             idlist |-> AssemblyRecord(assemblySections[byId[i]],
                                                            meshgrid, bounds, sectionId)]],
                        hex_conf |-> [i \in 1..(2 * ring - 1) |->
                                         [j \in 1..Len(HexConf(ring)[i]) |->
                                             assemblyId[Read(lattice, HexConf(ring)[i][j])]]]]
    /\ UNCHANGED <<coreVars, idVars, entityVars, assemblySections, bounds, meshRuns, edits>>

(***************************************************************************)
(* The life cycle of a core: rings are added, the core is completed and    *)
(* meshed, and the decks are written, in any order.                        *)
(***************************************************************************)
\* the entities of Init, no ring added yet
InitExport ==
    /\ \E declaredRings \in 1..MaxRings : NewCore(declaredRings, << >>)
    /\ location = [a \in Assemblies |-> IF a = "a1" THEN <<48, 49>> ELSE <<48, 50>>]
    /\ assemblySections = [a \in Assemblies |-> IF a = "a1" THEN <<"s1", "s2">> ELSE <<"s3">>]
    /\ sectionName = ("s1" :> <<97>>) @@ ("s2" :> <<98>>) @@ ("s3" :> <<99>>) @@ (coolant :> <<119>>)
    /\ eqMethod = ("s1" :> Homo) @@ ("s2" :> Supercell) @@ ("s3" :> OneD) @@ (coolant :> Homo)
    /\ scSection = ("s1" :> None) @@ ("s2" :> "s3") @@ ("s3" :> None) @@ (coolant :> None)
    /\ rod = ("s1" :> << >>) @@ ("s2" :> <<"m1">>) @@ ("s3" :> << >>) @@ (coolant :> << >>)
    /\ region = ("s1" :> <<"m1">>) @@ ("s2" :> <<"m2">>) @@ ("s3" :> <<"m3">>) @@ (coolant :> <<"m2">>)
    /\ materialName = ("m1" :> <<97>>) @@ ("m2" :> <<98>>) @@ ("m3" :> <<99>>)
    /\ \E b1, b2 \in CallerBounds :
          bounds = ("s1" :> b1) @@ ("s2" :> b2) @@ ("s3" :> b2) @@ (coolant :> DefaultBounds)

\* the tolerance the cases call meshing with, 1/2 here
CaseTolerance == Rat(1, 2)

NextExport ==
    \/ \E newRing \in CallerRings(Len(lattice) + 1) : AddRing(newRing)
    \/ Complete
    \/ Meshing(CaseTolerance)
    \/ ToTULIP
    \/ ToLAVENDER

SpecExport == InitExport /\ [][NextExport]_vars

(***************************************************************************)
(* Assembly.toLAVENDER as a function of the assembly, the mesh grid and    *)
(* the ids: the inputs are drawn in the initial state.                     *)
(***************************************************************************)
\* Assembly.toLAVENDER(self.meshgrid, self.coolant) of assembly a
AssemblyToLAVENDER(a) ==
    /\ last' = Call("Assembly.toLAVENDER", TRUE, NoTolerance)
    /\ deck' = [op |-> "FA_type",
                assembly |-> a,
                id |-> assemblyId[a],
                idlist |-> AssemblyRecord(assemblySections[a], meshgrid, bounds, sectionId)]
    /\ UNCHANGED <<coreVars, idVars, entityVars, assemblySections, bounds, meshRuns, edits>>

\* bounds on whole and half heights, lower < upper
HalfBounds ==
    {<<Rat(lo, 2), Rat(hi, 2)>> :
        <<lo, hi>> \in {x \in (0..2 * MaxHeight) \X (0..2 * MaxHeight) : x[1] < x[2]}}

\* the mesh grid of n cells -1, 0, ..., n - 1
UnitGrid(n) == [i \in 1..(n + 1) |-> RInt(i - 2)]

\* section ids: assigned and distinct; left from two assignments, so that a section
\* has the id of the coolant; never assigned
SectionIdCases ==
    { ("s1" :> 1) @@ ("s2" :> 2) @@ ("s3" :> 4) @@ (coolant :> 3),
      ("s1" :> 12) @@ ("s2" :> 7) @@ ("s3" :> 4) @@ (coolant :> 7),
      [s \in Sections |-> -1] }

InitFA ==
    /\ ring = 1
    /\ lattice = << <<"a1">> >>
    /\ completed = FALSE
    /\ assemblies = <<"a1">>
    /\ sections = <<"s1", "s2", "s3", coolant>>
    /\ materials = << >>
    /\ assemblyId = [a \in Assemblies |-> IF a = "a1" THEN 1 ELSE -1]
    /\ assemblyRK = [a \in Assemblies |-> IF a = "a1" THEN <<0, 0>> ELSE <<-1, -1>>]
    /\ sectionRK = [s \in Sections |-> IF s \in {"s1", "s2"} THEN <<0, 0>> ELSE <<-1, -1>>]
    /\ materialId = [m \in Materials |-> -1]
    /\ location = [a \in Assemblies |-> IF a = "a1" THEN <<48, 49>> ELSE <<48, 50>>]
    /\ sectionName = ("s1" :> <<97>>) @@ ("s2" :> <<98>>) @@ ("s3" :> <<99>>) @@ (coolant :> <<119>>)
    /\ eqMethod = [s \in Sections |-> Homo]
    /\ scSection = [s \in Sections |-> None]
    /\ rod = [s \in Sections |-> << >>]
    /\ region = [s \in Sections |-> << >>]
    /\ materialName = ("m1" :> <<97>>) @@ ("m2" :> <<98>>) @@ ("m3" :> <<99>>)
    /\ last = Call("init", TRUE, NoTolerance)
    /\ meshRuns = 1
    /\ edits = 0
    /\ deck = NoDeck
    /\ sectionId \in SectionIdCases
    /\ \E n \in 1..MaxCells :
          /\ meshgrid = UnitGrid(n)
          /\ \E b1, b2 \in HalfBounds :
                /\ bounds = ("s1" :> b1) @@ ("s2" :> b2) @@ ("s3" :> b2)
                              @@ (coolant :> <<RInt(-1), RInt(n - 1)>>)
                /\ \E a1Sections \in {<<"s1">>, <<"s1", "s2">>, <<"s2", "s1">>} :
                      /\ assemblySections = ("a1" :> a1Sections) @@ ("a2" :> <<"s3">>)
                      /\ a1Sections = <<"s1">> => b2 = b1

NextFA == \E a \in PlacedAssemblies(lattice) : AssemblyToLAVENDER(a)

SpecFA == InitFA /\ [][NextFA]_vars

(***************************************************************************)
(* Core.rk2xy.  Angles are whole multiples of pi/3, so a position is kept  *)
(* exactly as a pair <<X, Y>> of integers that stands for the point        *)
(* (X / 2, Y * sqrt(3) / 2).                                               *)
(***************************************************************************)
\* 2 * cos(pi - n * pi / 3): the angle measured from the negative x axis
TwiceCosMirrored(n) == <<-2, -1, 1, 2, 1, -1>>[(n % 6) + 1]

\* 2 * cos(n * pi / 3)
TwiceCos(n) == <<2, 1, -1, -2, -1, 1>>[(n % 6) + 1]

\* sin(n * pi / 3) / (sqrt(3) / 2)
SinUnits(n) == <<0, 1, 1, 0, -1, -1>>[(n % 6) + 1]

\* a direction that does not turn with the sector
SeatDegreeOfSectorA(degree) == -1

\* "degree -= 2 * np.pi / 3", in units of pi/3
SeatDegree(degree) == degree - 2

\* rk2xy(r, k, pitch) for r >= 1
PositionOf(r, k, pitch) ==
    LET sector == k \div r
        seat == k % r
        degree == 1 - sector
        radius == r * pitch
        distance == seat * pitch
    IN  <<radius * TwiceCos(degree) + distance * TwiceCos(SeatDegree(degree)),
          radius * SinUnits(degree) + distance * SinUnits(SeatDegree(degree))>>

\* Core.rk2xy(r, k, pitch): "assert k == 0" fails for another k in ring 0
Rk2xy(r, k, pitch) ==
    /\ IF r = 0 /\ k # 0
       THEN /\ last' = Call("rk2xy", FALSE, NoTolerance)
            /\ deck' = NoDeck
       ELSE /\ last' = Call("rk2xy", TRUE, NoTolerance)
            /\ deck' = [op |-> "rk2xy", r |-> r, k |-> k, pitch |-> pitch,
                        xy |-> IF r = 0 THEN <<0, 0>> ELSE PositionOf(r, k, pitch)]
    /\ UNCHANGED <<coreVars, idVars, entityVars, assemblySections, bounds, meshRuns, edits>>

\* the row loop of Core.toLAVENDER alone: the slots it reads, row by row
HexConfRows ==
    /\ last' = Call("hex_conf", ~LAVENDERRaises, NoTolerance)
    /\ deck' = [op |-> "hex_conf", rows |-> HexConf(ring)]
    /\ UNCHANGED <<coreVars, idVars, entityVars, assemblySections, bounds, meshRuns, edits>>

\* the pitches rk2xy is called with
Pitches == {1, 2}

\* a completed core whose lattice has the declared number of rings
InitHex ==
    /\ \E R \in 1..MaxHexRings :
          /\ ring = R
          /\ lattice = [r \in 1..R |-> CHOOSE newRing \in CallerRings(r) : TRUE]
    /\ completed = TRUE
    /\ meshgrid = << >>
    /\ assemblies = <<"a1", "a2">>
    /\ sections = <<"s1", "s2", "s3", coolant>>
    /\ materials = << >>
    /\ assemblyId = ("a1" :> 1) @@ ("a2" :> 2)
    /\ assemblyRK = [a \in Assemblies |-> <<0, 0>>]
    /\ sectionId = ("s1" :> 1) @@ ("s2" :> 2) @@ ("s3" :> 3) @@ (coolant :> 4)
    /\ sectionRK = [s \in Sections |-> <<0, 0>>]
    /\ materialId = [m \in Materials |-> -1]
    /\ location = [a \in Assemblies |-> IF a = "a1" THEN <<48, 49>> ELSE <<48, 50>>]
    /\ assemblySections = [a \in Assemblies |-> IF a = "a1" THEN <<"s1", "s2">> ELSE <<"s3">>]
    /\ sectionName = ("s1" :> <<97>>) @@ ("s2" :> <<98>>) @@ ("s3" :> <<99>>) @@ (coolant :> <<119>>)
    /\ eqMethod = [s \in Sections |-> Homo]
    /\ scSection = [s \in Sections |-> None]
    /\ rod = [s \in Sections |-> << >>]
    /\ region = [s \in Sections |-> << >>]
    /\ materialName = ("m1" :> <<97>>) @@ ("m2" :> <<98>>) @@ ("m3" :> <<99>>)
    /\ bounds = ("s1" :> <<RInt(0), RInt(1)>>) @@ ("s2" :> <<RInt(1), RInt(2)>>)
                  @@ ("s3" :> <<RInt(0), RInt(2)>>) @@ (coolant :> DefaultBounds)
    /\ last = Call("init", TRUE, NoTolerance)
    /\ meshRuns = 0
    /\ edits = 0
    /\ deck = NoDeck

NextHex ==
    \/ HexConfRows
    \/ \E r \in 0..(ring - 1), k \in 0..(6 * ring), pitch \in Pitches :
          (k < RingSize(r + 1) \/ (r = 0 /\ k = 1)) /\ Rk2xy(r, k, pitch)

SpecHex == InitHex /\ [][NextHex]_vars

(***************************************************************************)
(* Core.meshing on sections whose bounds are halves.                       *)
(***************************************************************************)
\* the bounds of a section in halves, lower < upper
HalfStepBounds ==
    {<<Rat(lo, 2), Rat(hi, 2)>> : <<lo, hi>> \in {x \in (0..MaxHalves) \X (0..MaxHalves) : x[1] < x[2]}}

\* the core of Init after specifyID has stored its sorted lists and ids
InitMesh ==
    /\ ring = 1
    /\ lattice = << <<"a1">> >>
    /\ meshgrid = << >>
    /\ completed = FALSE
    /\ assemblies = <<"a1">>
    /\ sections = <<"s3", "s1", coolant, "s2">>
    /\ materials = <<"m1", "m2", "m3">>
    /\ assemblyId = ("a1" :> 1) @@ ("a2" :> -1)
    /\ assemblyRK = ("a1" :> <<0, 0>>) @@ ("a2" :> <<-1, -1>>)
    /\ sectionId = ("s3" :> 1) @@ ("s1" :> 2) @@ (coolant :> 3) @@ ("s2" :> 4)
    /\ sectionRK = ("s1" :> <<0, 0>>) @@ ("s2" :> <<0, 0>>) @@ ("s3" :> <<-1, -1>>)
                     @@ (coolant :> <<-1, -1>>)
    /\ materialId = ("m1" :> 1) @@ ("m2" :> 2) @@ ("m3" :> 3)
    /\ location = [a \in Assemblies |-> IF a = "a1" THEN <<48, 49>> ELSE <<48, 50>>]
    /\ assemblySections = [a \in Assemblies |-> IF a = "a1" THEN <<"s1", "s2">> ELSE <<"s3">>]
    /\ sectionName = ("s1" :> <<97>>) @@ ("s2" :> <<98>>) @@ ("s3" :> <<99>>) @@ (coolant :> <<119>>)
    /\ eqMethod = ("s1" :> Homo) @@ ("s2" :> Supercell) @@ ("s3" :> OneD) @@ (coolant :> Homo)
    /\ scSection = ("s1" :> None) @@ ("s2" :> "s3") @@ ("s3" :> None) @@ (coolant :> None)
    /\ rod = ("s1" :> << >>) @@ ("s2" :> <<"m1">>) @@ ("s3" :> << >>) @@ (coolant :> << >>)
    /\ region = ("s1" :> <<"m1">>) @@ ("s2" :> <<"m2">>) @@ ("s3" :> <<"m3">>) @@ (coolant :> <<"m2">>)
    /\ materialName = ("m1" :> <<97>>) @@ ("m2" :> <<98>>) @@ ("m3" :> <<99>>)
    /\ \E b1, b2 \in HalfStepBounds :
          bounds = ("s1" :> b1) @@ ("s2" :> b2) @@ ("s3" :> b2) @@ (coolant :> DefaultBounds)
    /\ last = Call("specifyID", TRUE, NoTolerance)
    /\ meshRuns = 0
    /\ edits = 0
    /\ deck = NoDeck

NextMesh == \E tolerance \in Tolerances : MeshingLogged(tolerance)

SpecMesh == InitMesh /\ [][NextMesh]_vars

(***************************************************************************)
(* cormesh: the densifier of the axial layers of a LAVENDER deck.  A deck  *)
(* is kept as the tokens of its layer line and of its FA_type lines.       *)
(***************************************************************************)
RECURSIVE Pow10(_)
Pow10(n) == IF n = 0 THEN 1 ELSE 10 * Pow10(n - 1)

\* "{:.4f}".format(x) for x >= 0 that shows n times 0.0001
FixedToStr(n) ==
    NatToStr(n \div 10000) \o <<46>>
        \o <<48 + ((n \div 1000) % 10), 48 + ((n \div 100) % 10),
             48 + ((n \div 10) % 10), 48 + (n % 10)>>

\* "{:.4f}".format(x)
Format4(x) == FixedToStr(ToFixed4(x))

\* float(s) raises ValueError: the token holds a "*"
FloatRaises(s) == HasStar(s)

\* float(s) for digits with an optional fraction
StrToFloat(s) ==
    LET dots == {i \in 1..Len(s) : s[i] = 46} IN
    IF dots = {} THEN RInt(DigitsToNat(s, 0))
    ELSE LET dot == CHOOSE i \in dots : TRUE
             whole == SubSeq(s, 1, dot - 1)
             frac == SubSeq(s, dot + 1, Len(s))
         IN  Rat(DigitsToNat(whole, 0) * Pow10(Len(frac)) + DigitsToNat(frac, 0), Pow10(Len(frac)))

\* a / b for b # 0
RDiv(a, b) == Rat(a[1] * b[2], a[2] * b[1])

\* math.ceil(a)
Ceil(a) == -((-a[1]) \div a[2])

\* round(x, 4)
Round4(x) == Rat(ToFixed4(x), 10000)

\* the division of a layer raises ZeroDivisionError: height / 0. or height / 0
DivisionRaises(height, max_cell_height) ==
    /\ ~RLe(height, max_cell_height)
    /\ \/ max_cell_height[1] = 0
       \/ Ceil(RDiv(height, max_cell_height)) = 0

\* ceil(height / max_cell_height) of a layer that is too coarse
Factor(height, max_cell_height) == Ceil(RDiv(height, max_cell_height))

\* what one layer adds to factors_dense
ExtraCells(height, max_cell_height) ==
    IF RLe(height, max_cell_height) THEN 0 ELSE Factor(height, max_cell_height) - 1

\* what one layer adds to height_layer_dense; range(factor) is empty for factor <= 0
DenseCells(height, max_cell_height) ==
    IF RLe(height, max_cell_height) THEN <<height>>
    ELSE LET factor == Factor(height, max_cell_height)
         IN  [i \in 1..factor |-> Round4(RDivInt(height, factor))]

RECURSIVE HeightLayerDense(_, _)
HeightLayerDense(height_layer, max_cell_height) ==
    IF height_layer = << >> THEN << >>
    ELSE DenseCells(Head(height_layer), max_cell_height)
            \o HeightLayerDense(Tail(height_layer), max_cell_height)

FactorsDense(height_layer, max_cell_height) ==
    [i \in 1..Len(height_layer) |-> ExtraCells(height_layer[i], max_cell_height)]

\* print_list: the loop from ls[i] on and the entry appended after it
RECURSIVE PrintRuns(_, _, _, _, _)
PrintRuns(ls, i, prev, cnt, slist) ==
    IF i > Len(ls) THEN Append(slist, Format4(prev))
    ELSE IF ls[i] = prev THEN PrintRuns(ls, i + 1, prev, cnt + 1, slist)
    ELSE PrintRuns(ls, i + 1, ls[i], 1,
                   Append(slist, IF cnt = 1 THEN Format4(prev)
                                 ELSE IntToStr(cnt) \o Star \o Format4(prev)))

\* print_list(ls), as the tokens of the string it returns
PrintList(ls) == IF ls = << >> THEN << >> ELSE PrintRuns(ls, 1, ls[1], 0, << >>)

\* an entry of an FA_type line: [count, id], "[1, int(x)]" without a star
ParseEntry(x) ==
    IF HasStar(x) THEN <<StrToInt(Split(x)[1]), StrToInt(Split(x)[2])>> ELSE <<1, StrToInt(x)>>

\* sum(factors_dense[:n]) for n >= 0
RECURSIVE SumUpTo(_, _)
SumUpTo(factors_dense, n) ==
    IF n <= 0 \/ factors_dense = << >> THEN 0
    ELSE Head(factors_dense) + SumUpTo(Tail(factors_dense), n - 1)

\* the cells added to an entry that starts right after the first cnt layers, with the
\* sum taken over the first layer of the entry alone
ExtraOfFirstLayer(factors_dense, cnt, num) ==
    SumUpTo(factors_dense, cnt + 1) - SumUpTo(factors_dense, cnt)

\* sum(factors_dense[:cnt+num]) - sum(factors_dense[:cnt])
ExtraOfEntry(factors_dense, cnt, num) ==
    SumUpTo(factors_dense, cnt + num) - SumUpTo(factors_dense, cnt)

\* the entry written for [num, mat]
WriteEntry(num, mat) == IF num > 1 THEN CountTimesId(num, mat) ELSE IntToStr(mat)

\* the entries written for an FA_type line, from entries[i] on
RECURSIVE WriteEntries(_, _, _, _)
WriteEntries(entries, i, cnt, factors_dense) ==
    IF i > Len(entries) THEN << >>
    ELSE LET num == ParseEntry(entries[i])[1]
             mat == ParseEntry(entries[i])[2]
             factor == ExtraOfEntry(factors_dense, cnt, num)
         IN  <<WriteEntry(IF factor > 0 THEN num + factor ELSE num, mat)>>
                \o WriteEntries(entries, i + 1, cnt + num, factors_dense)

\* a path that holds nothing, a directory, and a deck file
Directory == [kind |-> "dir"]

DeckFile(count, layer, FA_type) ==
    [kind |-> "file", count |-> count, layer |-> layer, FA_type |-> FA_type]

\* os.path.exists(lavender_file) and os.path.isfile(lavender_file)
IsFile(disk, path) == path \in DOMAIN disk /\ disk[path].kind = "file"

\* the "{:.1f}" of the directory name: the number of tenths shown (ties to even)
ToFixed1(x) ==
    LET n == x[1] * 10
        q == n \div x[2]
        twice == 2 * (n % x[2])
    IN  IF twice > x[2] \/ (twice = x[2] /\ q % 2 = 1) THEN q + 1 ELSE q

\* trg_file: lavender.inp in the directory lavender_mesh<height> beside the source
TargetPath(path, max_cell_height) == Append(path, ToFixed1(max_cell_height))

\* no threshold is refused
ThresholdUnchecked(max_cell_height) == FALSE

\* max_cell_height <= 0.
ThresholdRefused(max_cell_height) == RLe(max_cell_height, RInt(0))

\* the heights the layer line of a deck is read as
HeightLayer(file) == [i \in 1..Len(file.layer) |-> StrToFloat(file.layer[i])]

\* cormesh raises before it writes anything
CormeshRaises(disk, path, max_cell_height) ==
    \/ ~IsFile(disk, path)
    \/ ThresholdRefused(max_cell_height)
    \/ \E i \in 1..Len(disk[path].layer) : FloatRaises(disk[path].layer[i])
    \/ \E i \in 1..Len(disk[path].layer) :
          DivisionRaises(StrToFloat(disk[path].layer[i]), max_cell_height)

\* the deck cormesh writes
DenseDeck(file, max_cell_height) ==
    LET height_layer_dense == HeightLayerDense(HeightLayer(file), max_cell_height)
        factors_dense == FactorsDense(HeightLayer(file), max_cell_height)
    IN  DeckFile(Len(height_layer_dense), PrintList(height_layer_dense),
                 [a \in 1..Len(file.FA_type) |->
                     WriteEntries(file.FA_type[a], 1, 0, factors_dense)])

\* cormesh(lavender_file, max_cell_height); a path is the list of the directories
\* lavender_mesh<height> that lead from the first deck to the file
Cormesh(path, max_cell_height) ==
    /\ deck.runs < MaxDensifyRuns
    /\ LET raises == CormeshRaises(deck.disk, path, max_cell_height)
           trg_file == TargetPath(path, max_cell_height)
       IN  /\ last' = Call("cormesh", ~raises, max_cell_height)
           /\ deck' = [op |-> "cormesh", runs |-> deck.runs + 1, path |-> path,
                       before |-> deck.disk,
                       disk |-> IF raises THEN deck.disk
                                ELSE (trg_file :> DenseDeck(deck.disk[path], max_cell_height))
                                         @@ deck.disk]
    /\ UNCHANGED <<coreVars, idVars, entityVars, assemblySections, bounds, meshRuns, edits>>

\* the heights of the layers Core.toLAVENDER writes, as numbers of 0.0001
LayerHeights == {5000, 10000}

\* the layer lines Core.toLAVENDER writes: one "{:.4f}" token per layer
LayerLines ==
    UNION {[1..n -> {FixedToStr(h) : h \in LayerHeights}] : n \in 1..MaxLayers}

\* records Assembly.toLAVENDER writes for n layers: one section, coolant below a
\* section, and a section below another one
Records(n) ==
    {<<WriteEntry(n, 7)>>}
        \cup (IF n >= 2 THEN {<<IntToStr(12), WriteEntry(n - 1, 7)>>,
                              <<WriteEntry(n - 1, 7), IntToStr(3)>>}
              ELSE {})

\* a record that is one cell short of the layers (an unclassified cell was skipped)
ShortRecord(n) == IF n >= 2 THEN {<<WriteEntry(n - 1, 7)>>} ELSE {}

\* the decks Core.toLAVENDER writes
SourceDecks ==
    {DeckFile(Len(layer), layer, <<record, <<WriteEntry(Len(layer), 3)>> >>) :
        <<layer, record>> \in {x \in LayerLines \X UNION {Records(n) \cup ShortRecord(n) : n \in 1..MaxLayers} :
                                  x[2] \in Records(Len(x[1])) \cup ShortRecord(Len(x[1]))}}

\* the thresholds cormesh is called with
CellHeights == {Rat(-1, 2), RInt(0), Rat(16667, 100000), Rat(2, 5), Rat(1, 2), RInt(2)}

\* the paths cormesh is called with: the files there are, the first deck and a
\* directory of an earlier run that may not be there
CallerPaths == DOMAIN deck.disk \cup {<< >>, <<ToFixed1(RInt(2))>>}

\* the first deck is missing, is a directory, or is a deck Core.toLAVENDER wrote
InitDensify ==
    /\ ring = 1
    /\ lattice = << <<"a1">> >>
    /\ completed = TRUE
    /\ meshgrid = << >>
    /\ assemblies = <<"a1", "a2">>
    /\ sections = <<"s1", "s2", "s3", coolant>>
    /\ materials = << >>
    /\ assemblyId = ("a1" :> 1) @@ ("a2" :> 2)
    /\ assemblyRK = [a \in Assemblies |-> <<0, 0>>]
    /\ sectionId = ("s1" :> 1) @@ ("s2" :> 2) @@ ("s3" :> 3) @@ (coolant :> 4)
    /\ sectionRK = [s \in Sections |-> <<0, 0>>]
    /\ materialId = [m \in Materials |-> -1]
    /\ location = [a \in Assemblies |-> IF a = "a1" THEN <<48, 49>> ELSE <<48, 50>>]
    /\ assemblySections = [a \in Assemblies |-> IF a = "a1" THEN <<"s1", "s2">> ELSE <<"s3">>]
    /\ sectionName = ("s1" :> <<97>>) @@ ("s2" :> <<98>>) @@ ("s3" :> <<99>>) @@ (coolant :> <<119>>)
    /\ eqMethod = [s \in Sections |-> Homo]
    /\ scSection = [s \in Sections |-> None]
    /\ rod = [s \in Sections |-> << >>]
    /\ region = [s \in Sections |-> << >>]
    /\ materialName = ("m1" :> <<97>>) @@ ("m2" :> <<98>>) @@ ("m3" :> <<99>>)
    /\ bounds = ("s1" :> <<RInt(0), RInt(1)>>) @@ ("s2" :> <<RInt(1), RInt(2)>>)
                  @@ ("s3" :> <<RInt(0), RInt(2)>>) @@ (coolant :> DefaultBounds)
    /\ last = Call("init", TRUE, NoTolerance)
    /\ meshRuns = 0
    /\ edits = 0
    /\ \E disk \in {<< >>, << >> :> Directory} \cup {<< >> :> file : file \in SourceDecks} :
          deck = [op |-> "lavender", runs |-> 0, path |-> << >>, before |-> disk, disk |-> disk]

NextDensify ==
    \E path \in CallerPaths, max_cell_height \in CellHeights : Cormesh(path, max_cell_height)

SpecDensify == InitDensify /\ [][NextDensify]_vars

(***************************************************************************)
(* Properties of Core.meshing.                                             *)
(***************************************************************************)
Positive(tolerance) == RLt(RInt(0), tolerance)

\* the last call was meshing and it returned
MeshingReturned == last.op = "meshing" /\ last.ok

\* the step is a call of meshing that returns
MeshingReturns == last'.op = "meshing" /\ last'.ok /\ meshRuns' = meshRuns + 1

OnMesh(h) == h \in Range(meshgrid)

\* assemblies are placed and Core.sections holds the sections specifyID collects
\* from the lattice as it is now
IdsCurrent ==
    /\ lattice # << >>
    /\ Range(sections) = CollectSections(lattice, assemblySections)

\* C1: after meshing(tolerance) with tolerance > 0 has returned, both bounds of
\* every section in core.sections are elements of core.meshgrid.
C1_BoundsOnMesh ==
    (MeshingReturned /\ Positive(last.tolerance)) =>
        \A s \in Range(sections) : OnMesh(bounds[s][1]) /\ OnMesh(bounds[s][2])

\* C1 witness: meshing with a positive tolerance has returned and a section the
\* caller built has a bound on a mesh height that is the mean of a cluster.
C1_Witness ==
    /\ MeshingReturned /\ Positive(last.tolerance)
    /\ \E s \in Range(sections) \ {coolant} :
          /\ bounds[s][1][2] > 1
          /\ OnMesh(bounds[s][1])

\* C2: the mesh grid is strictly increasing, whatever heights and tolerance it was
\* built from.
C2_MeshStrictlyIncreasing ==
    \A i \in 1..(Len(meshgrid) - 1) : RLt(meshgrid[i], meshgrid[i + 1])

\* C2 witness: a mesh of at least three heights, one of them the mean of a cluster.
C2_Witness ==
    /\ last.op = "meshing"
    /\ Len(meshgrid) >= 3
    /\ \E i \in 1..Len(meshgrid) : meshgrid[i][2] > 1

\* C3 as claimed: after meshing with tolerance > 0, any two adjacent mesh heights
\* differ by more than tolerance.
C3_AdjacentFartherThanTolerance ==
    (MeshingReturned /\ Positive(last.tolerance) /\ IdsCurrent) =>
        \A i \in 1..(Len(meshgrid) - 1) :
            RLt(last.tolerance, RSub(meshgrid[i + 1], meshgrid[i]))

\* C4 as claimed: a meshing call with tolerance > 0 made directly after a meshing
\* call with the same tolerance leaves the mesh grid and all bounds, the coolant's
\* included, as they were.
C4_MeshingIdempotent ==
    [][(MeshingReturned /\ Positive(last.tolerance) /\ IdsCurrent
          /\ last'.op = "meshing" /\ last'.tolerance = last.tolerance
          /\ meshRuns' = meshRuns + 1)
        => (meshgrid' = meshgrid /\ bounds' = bounds)]_vars

\* the boundary heights of the sections of the assemblies placed in the lattice
PlacedHeights ==
    UNION {{bounds[s][1], bounds[s][2]} : s \in VisitedSections(lattice, assemblySections)}

PairwiseFarther(H, tolerance) ==
    \A x, y \in H : x # y => RLt(tolerance, RAbs(RSub(x, y)))

\* C5 as claimed: when the boundary heights of the placed sections are pairwise
\* farther apart than tolerance, meshing yields exactly the ascending list of those
\* heights and changes no bound of a placed section.
C5_FarHeightsGiveExactMesh ==
    [][(MeshingReturns /\ Positive(last'.tolerance) /\ IdsCurrent
          /\ PairwiseFarther(PlacedHeights, last'.tolerance))
        => /\ meshgrid' = SortAscending(PlacedHeights)
           /\ \A s \in VisitedSections(lattice, assemblySections) : bounds'[s] = bounds[s]]_vars

\* C6 as claimed: a section with lower < upper before meshing(tolerance > 0) has
\* lower < upper after it.
C6_BoundsStayOrdered ==
    [][(MeshingReturns /\ Positive(last'.tolerance) /\ IdsCurrent)
        => \A s \in Sections :
              RLt(bounds[s][1], bounds[s][2]) => RLt(bounds'[s][1], bounds'[s][2])]_vars

\* C7 as claimed: meshing called with tolerance <= 0 raises and leaves the mesh grid
\* and all section bounds unchanged.
C7_NonPositiveToleranceRejected ==
    [][(last'.op = "meshing" /\ meshRuns' = meshRuns + 1 /\ RLe(last'.tolerance, RInt(0))
          /\ IdsCurrent)
        => (~last'.ok /\ meshgrid' = meshgrid /\ bounds' = bounds)]_vars

\* C8 as claimed: a meshing run made after an earlier run builds its mesh from the
\* current bounds of the model's sections alone: every height of the new mesh lies
\* within tolerance of a bound some section built by the caller has now, none is
\* there only because the earlier run left it behind.
C8_MeshFullyReplaced ==
    [][(MeshingReturns /\ Positive(last'.tolerance) /\ IdsCurrent /\ meshgrid # << >>)
        => \A i \in 1..Len(meshgrid') :
              \E s \in Range(sections) \ {coolant}, k \in 1..2 :
                  RLe(RAbs(RSub(meshgrid'[i], bounds[s][k])), last'.tolerance)]_vars

(***************************************************************************)
(* Properties of Core.specifyID.                                           *)
(***************************************************************************)
\* the last call was specifyID, directly or through complete
AfterSpecifyID == last.op = "specifyID" \/ (last.op = "complete" /\ last.ok)

\* the objects of S hold exactly the ids 1..n, each at its rank under the key: one
\* more than the number of objects with a smaller key, plus its place among those
\* with an equal key
DenseRanked(S, ids, key) ==
    /\ {ids[x] : x \in S} = 1..Cardinality(S)
    /\ \A x \in S :
          /\ ids[x] > Cardinality({y \in S : StrLt(key[y], key[x])})
          /\ ids[x] <= Cardinality({y \in S : ~StrLt(key[x], key[y])})

\* C9: after specifyID the ids of the collected assemblies, sections and materials
\* are exactly 1..n within each kind, and an object's id is its rank under the sort
\* key of its kind.
C9_IdsDenseAndRanked ==
    AfterSpecifyID =>
        /\ DenseRanked(PlacedAssemblies(lattice), assemblyId, AssemblyKeys)
        /\ DenseRanked(CollectSections(lattice, assemblySections), sectionId, SectionKeys)
        /\ DenseRanked(CollectMaterials(lattice, assemblySections), materialId, MaterialKeys)

\* C9 witness: ids were assigned on a lattice of two rings whose four sections have
\* three different sort keys, two sections sharing one.
C9_Witness ==
    /\ AfterSpecifyID
    /\ Len(lattice) = 2
    /\ Cardinality(Range(sections)) = 4
    /\ Cardinality({SectionKey(s) : s \in Range(sections)}) = 3
    /\ Cardinality({MaterialKey(m) : m \in Range(materials)}) = 2

\* the sections reachable from the lattice: those of the placed assemblies, the
\* partner of every placed supercell section, and the coolant
ReachableSections ==
    LET placed == UNION {Range(assemblySections[a]) : a \in PlacedAssemblies(lattice)}
    IN  placed \cup {scSection[s] : s \in {x \in placed : eqMethod[x] = Supercell}} \cup {coolant}

\* C10 as claimed: after specifyID every placed assembly, every reachable section
\* and every material in the rod or region list of a reachable section has an id >= 1.
C10_ReachableHaveIds ==
    AfterSpecifyID =>
        /\ \A a \in PlacedAssemblies(lattice) : assemblyId[a] >= 1
        /\ \A s \in ReachableSections :
              /\ sectionId[s] >= 1
              /\ \A m \in Range(rod[s]) \cup Range(region[s]) : materialId[m] >= 1

\* C11 as claimed: the ids specifyID assigns are a function of the model alone: every
\* list sorted(list(set), key) can return, whatever the iteration order of the set,
\* assigns the same ids, also among objects with equal sort keys.
C11_IdsDeterministic ==
    AfterSpecifyID =>
        /\ \A p, q \in SortedLists(PlacedAssemblies(lattice), AssemblyKeys) :
              AssignIds(assemblyId, p) = AssignIds(assemblyId, q)
        /\ \A p, q \in SortedLists(CollectSections(lattice, assemblySections), SectionKeys) :
              AssignIds(sectionId, p) = AssignIds(sectionId, q)
        /\ \A p, q \in SortedLists(CollectMaterials(lattice, assemblySections), MaterialKeys) :
              AssignIds(materialId, p) = AssignIds(materialId, q)

(***************************************************************************)
(* Properties of the life cycle: addRing, complete and the serializers.    *)
(***************************************************************************)
\* ids were assigned at some time: specifyID stored its lists in the core
IdsAssigned == sections # << >>

\* every assembly, section and material has the id of a new object
IdsUnset ==
    /\ \A a \in Assemblies : assemblyId[a] = -1
    /\ \A s \in Sections : sectionId[s] = -1
    /\ \A m \in Materials : materialId[m] = -1

\* C12 as claimed: a change of the lattice after ids were assigned resets every id
\* to unset and leaves the core not completed, so that toTULIP and toLAVENDER
\* refuse it until ids are assigned again.
C12_LatticeChangeResetsIds ==
    [][(lattice' # lattice /\ IdsAssigned) => (IdsUnset' /\ ~completed')]_vars

\* the material ids a FORMAT-A deck refers to: those of the rod_mat and region_mat
\* lines and those of the material blocks
TULIPMaterialIds(d) ==
    UNION {Range(d.geometry[i].rod_mat) \cup Range(d.geometry[i].region_mat) :
              i \in 1..Len(d.geometry)}
      \cup Range(d.material)

\* the section ids a FORMAT-A deck refers to: the "mat<id>" headers
TULIPSectionIds(d) == UNION {Range(d.geometry[i].mat) : i \in 1..Len(d.geometry)}

\* C13 as claimed: toTULIP returns a deck only for a completed core, and every section
\* and material id the deck refers to is an assigned id (>= 1).
C13_TULIPOnlyWhenFullyIdentified ==
    (last.op = "toTULIP" /\ last.ok) =>
        /\ completed
        /\ \A id \in TULIPSectionIds(deck) \cup TULIPMaterialIds(deck) : id >= 1

\* C14 as claimed: toLAVENDER on a completed core on which meshing was never called
\* raises instead of returning a deck.
C14_LAVENDERNeedsMesh ==
    (last.op = "toLAVENDER" /\ completed /\ meshRuns = 0) => ~last.ok

\* C15 as claimed: complete() always assigns ids and marks the core completed,
\* whatever its check reports: a number of rings other than the declared one, a ring
\* of the wrong size, sections of an assembly that do not join.
C15_WarningsDoNotHaltComplete ==
    last.op = "complete" => (last.ok /\ completed /\ IdsAssigned)

(***************************************************************************)
(* Properties of Assembly.toLAVENDER.                                      *)
(***************************************************************************)
\* the last call wrote the record of an assembly
RecordWritten == last.op = "Assembly.toLAVENDER" /\ deck.op = "FA_type"

\* the sections of the assembly the record is of
RecordSections == Range(assemblySections[deck.assembly])

\* cell i of the mesh grid lies inside section s
CellInside(i, s) == RLe(bounds[s][1], meshgrid[i]) /\ RLe(meshgrid[i + 1], bounds[s][2])

\* cell i lies wholly below the lowest or wholly above the highest section
CellOutside(i) ==
    \/ \A s \in RecordSections : RLe(meshgrid[i + 1], bounds[s][1])
    \/ \A s \in RecordSections : RLe(bounds[s][2], meshgrid[i])

\* the sections join without gap or overlap and all their bounds are mesh heights
JoinedOnMesh ==
    /\ AssemblyCheck(SortByLower(assemblySections[deck.assembly], bounds), bounds)
    /\ \A s \in RecordSections :
          /\ RLt(bounds[s][1], bounds[s][2])
          /\ OnMesh(bounds[s][1]) /\ OnMesh(bounds[s][2])

\* the id of cell i: that of the section it lies in, else the coolant's
CellId(i) ==
    IF \E s \in RecordSections : CellInside(i, s)
    THEN sectionId[CHOOSE s \in RecordSections : CellInside(i, s)]
    ELSE sectionId[coolant]

\* C16: for an assembly whose sections join and have their bounds on the mesh, the
\* record expands to one id per cell of the mesh: the id of the section the cell lies
\* in, the coolant's for the cells below and above the assembly.
C16_RecordExpandsToCells ==
    (RecordWritten /\ JoinedOnMesh) =>
        Expand(deck.idlist) = [i \in 1..(Len(meshgrid) - 1) |-> CellId(i)]

\* C16 witness: two joined sections with distinct ids, coolant cells below and above
\* the assembly, and a run of several cells in the record.
C16_Witness ==
    /\ RecordWritten /\ JoinedOnMesh
    /\ Cardinality(RecordSections) = 2
    /\ Cardinality({sectionId[s] : s \in RecordSections \cup {coolant}}) = 3
    /\ CellOutside(1) /\ ~CellInside(1, "s1")
    /\ \E i \in 2..(Len(meshgrid) - 1) : CellOutside(i) /\ CellId(i - 1) # sectionId[coolant]
    /\ \E i \in 1..Len(deck.idlist) : HasStar(deck.idlist[i])

\* cell i can be given no id: it lies in no section, and neither wholly below nor
\* wholly above the assembly
Unclassified(i) == ~CellOutside(i) /\ \A s \in RecordSections : ~CellInside(i, s)

\* C17 as claimed: when a cell of the mesh lies in a gap between the sections, or is
\* cut by a section bound, Assembly.toLAVENDER raises instead of writing a record.
C17_UnclassifiedCellRejected ==
    (last.op = "Assembly.toLAVENDER" /\ \E i \in 1..(Len(meshgrid) - 1) : Unclassified(i))
        => ~last.ok

\* C18: no two adjacent entries of a record carry the same id.
C18_AdjacentRunsDiffer ==
    RecordWritten =>
        \A i \in 1..(Len(deck.idlist) - 1) :
            EntryId(deck.idlist[i]) # EntryId(deck.idlist[i + 1])

\* C18 witness: a record with a run of ten or more coolant cells next to the cells of
\* a section that has the coolant's id, merged into one entry with them.
C18_Witness ==
    /\ RecordWritten /\ JoinedOnMesh
    /\ Len(deck.idlist) >= 2
    /\ \E s \in RecordSections :
          /\ sectionId[s] = sectionId[coolant]
          /\ \E i \in 2..(Len(meshgrid) - 1) : CellInside(i - 1, s) /\ CellOutside(i)
    /\ Cardinality({i \in 1..(Len(meshgrid) - 1) : CellOutside(i)}) >= 10
    /\ \E i \in 1..Len(deck.idlist) :
          /\ HasStar(deck.idlist[i])
          /\ Len(Split(deck.idlist[i])[1]) >= 2

(***************************************************************************)
(* Properties of the lattice traversal and of Core.rk2xy.                  *)
(***************************************************************************)
\* the slots of a hexagonal lattice of R rings, 0-based
HexSlots(R) == {<<r, k>> \in (0..(R - 1)) \X (0..(6 * R)) : k < RingSize(r + 1)}

\* how often the rows read slot x
TimesRead(rows, x) ==
    Cardinality({<<i, j>> \in (1..Len(rows)) \X (1..(2 * Len(rows))) :
                    j <= Len(rows[i]) /\ rows[i][j] = x})

\* C19: the rows 0..2R-2 of the traversal read every slot (r, k) of the R rings
\* exactly once, and read nothing but these slots.
C19_TraversalReadsEverySlotOnce ==
    deck.op = "hex_conf" =>
        /\ Len(deck.rows) = 2 * ring - 1
        /\ \A i \in 1..Len(deck.rows) : \A j \in 1..Len(deck.rows[i]) :
              deck.rows[i][j] \in HexSlots(ring)
        /\ \A x \in HexSlots(ring) : TimesRead(deck.rows, x) = 1

\* C19 witness: the traversal of a core of three or more rings, whose rows below the
\* centre line read slots of the rings in between.
C19_Witness ==
    /\ deck.op = "hex_conf"
    /\ ring >= 3
    /\ last.ok
    /\ \E i \in (ring + 1)..Len(deck.rows) : Len(deck.rows[i]) > ring

\* twice the point <<X, Y>> turned by 60 degrees clockwise about the origin:
\* (x, y) goes to (x / 2 + y * sqrt(3) / 2, y / 2 - x * sqrt(3) / 2)
TwiceRotated60Clockwise(xy) == <<xy[1] + 3 * xy[2], xy[2] - xy[1]>>

Twice(xy) == <<2 * xy[1], 2 * xy[2]>>

\* C20: for r >= 1 and 0 <= k < 6r the position of (r, (k + r) mod 6r) is the
\* position of (r, k) turned by 60 degrees clockwise about the origin.
C20_SixFoldSymmetry ==
    (deck.op = "rk2xy" /\ deck.r >= 1) =>
        Twice(PositionOf(deck.r, (deck.k + deck.r) % (6 * deck.r), deck.pitch))
            = TwiceRotated60Clockwise(deck.xy)

\* C20 witness: a position off the first seat of its sector, in the last sector, so
\* that the turn leads back to the first sector.
C20_Witness ==
    /\ deck.op = "rk2xy"
    /\ deck.r >= 2
    /\ deck.k % deck.r # 0
    /\ deck.k + deck.r >= 6 * deck.r
    /\ deck.xy # <<0, 0>>

(***************************************************************************)
(* Further properties of Core.meshing.                                     *)
(***************************************************************************)
\* C29: meshing called with a positive tolerance on a core whose lattice is populated
\* and on which neither specifyID nor complete has run returns, and leaves a mesh
\* that holds both bounds of every section of the assemblies in the lattice.
C29_MeshingBeforeIds ==
    (last.op = "meshing" /\ Positive(last.tolerance) /\ lattice # << >> /\ sections = << >>) =>
        /\ last.ok
        /\ meshgrid # << >>
        /\ \A s \in VisitedSections(lattice, assemblySections) :
              OnMesh(bounds[s][1]) /\ OnMesh(bounds[s][2])

\* the bounds the sections had when meshing was called
BoundBefore(s, i) == deck.before[s][i]

\* C25: a bound of a section the caller built that is exactly a height of the mesh
\* has after meshing the value it had before.
C25_BoundOnMeshUntouched ==
    (deck.op = "meshing" /\ last.ok) =>
        \A s \in Range(sections) \ {coolant} : \A i \in 1..2 :
           OnMesh(BoundBefore(s, i)) => bounds[s][i] = BoundBefore(s, i)

\* the sorted heights are a chain for the tolerance: each height is within tolerance
\* of the next, and the first and the last are farther apart than tolerance
IsLongChain(heights, tolerance) ==
    /\ Len(heights) >= 3
    /\ \A i \in 1..(Len(heights) - 1) : RLe(RSub(heights[i + 1], heights[i]), tolerance)
    /\ RLt(tolerance, RSub(heights[Len(heights)], heights[1]))

XY(slot, pitch) == IF slot[1] = 0 THEN <<0, 0>> ELSE PositionOf(slot[1], slot[2], pitch)

\* C30: the slots of output row l lie (ring - 1 - l) rows above the centre line, a row
\* being pitch * sqrt(3) / 2 high, and each slot lies one pitch to the right of the
\* slot emitted before it.
C30_RowsAgreeWithRk2xy ==
    deck.op = "hex_conf" =>
        \A pitch \in Pitches : \A i \in 1..Len(deck.rows) :
           /\ \A j \in 1..Len(deck.rows[i]) :
                 XY(deck.rows[i][j], pitch)[2] = (ring - i) * pitch
           /\ \A j \in 1..(Len(deck.rows[i]) - 1) :
                 XY(deck.rows[i][j + 1], pitch)[1] = XY(deck.rows[i][j], pitch)[1] + 2 * pitch

\* C30 witness: the traversal of a core of three or more rings has written its rows.
C30_Witness ==
    /\ deck.op = "hex_conf" /\ last.ok
    /\ ring >= 3
    /\ Len(deck.rows) = 2 * ring - 1
    /\ \E i \in 1..Len(deck.rows) : \E j \in 1..Len(deck.rows[i]) :
          deck.rows[i][j][1] = ring - 1 /\ XY(deck.rows[i][j], 1)[2] < 0

(***************************************************************************)
(* Properties of cormesh.                                                  *)
(***************************************************************************)
\* the last call of cormesh returned
CormeshReturned == deck.op = "cormesh" /\ last.ok


\* the deck the last call read and the deck it wrote
DeckRead == deck.before[deck.path]

DeckWritten == deck.disk[TargetPath(deck.path, last.tolerance)]

\* the heights a layer line denotes: "<repeat>*<height>" stands for repeat layers
ExpandHeight(token) ==
    IF HasStar(token)
    THEN [i \in 1..StrToInt(Split(token)[1]) |-> StrToFloat(Split(token)[2])]
    ELSE <<StrToFloat(token)>>

RECURSIVE ExpandHeights(_)
ExpandHeights(tokens) ==
    IF tokens = << >> THEN << >> ELSE ExpandHeight(Head(tokens)) \o ExpandHeights(Tail(tokens))

\* the layers that replace a layer of height h: h itself, or ceil(h / threshold)
\* layers of height h / ceil(h / threshold)
EqualSubLayers(h, threshold) ==
    IF RLe(h, threshold) THEN <<h>>
    ELSE [i \in 1..Ceil(RDiv(h, threshold)) |-> RDivInt(h, Ceil(RDiv(h, threshold)))]

RECURSIVE AllSubLayers(_, _)
AllSubLayers(heights, threshold) ==
    IF heights = << >> THEN << >>
    ELSE EqualSubLayers(Head(heights), threshold) \o AllSubLayers(Tail(heights), threshold)

\* C21: the heights the written layer line denotes are at most the threshold, and they
\* are the input layers with every layer h > threshold replaced by ceil(h / threshold)
\* layers of height h / ceil(h / threshold).
C21_LayersWithinThreshold ==
    CormeshReturned =>
        LET written == ExpandHeights(DeckWritten.layer) IN
        /\ \A i \in 1..Len(written) : RLe(written[i], last.tolerance)
        /\ written = AllSubLayers(ExpandHeights(DeckRead.layer), last.tolerance)

\* the threshold is larger than every layer of the deck read
AboveEveryLayer(threshold, file) ==
    \A i \in 1..Len(file.layer) : RLt(StrToFloat(file.layer[i]), threshold)

\* C22: with a threshold larger than every layer height the written deck denotes the
\* heights and the per-layer ids of the deck read.
C22_LargeThresholdKeepsContent ==
    (CormeshReturned /\ AboveEveryLayer(last.tolerance, DeckRead)) =>
        /\ ExpandHeights(DeckWritten.layer) = ExpandHeights(DeckRead.layer)
        /\ Len(DeckWritten.FA_type) = Len(DeckRead.FA_type)
        /\ \A a \in 1..Len(DeckRead.FA_type) :
              Expand(DeckWritten.FA_type[a]) = Expand(DeckRead.FA_type[a])

\* C23: cormesh called with a positive threshold on a deck that an earlier run of
\* cormesh wrote returns.
C23_OutputIsConsumed ==
    (deck.op = "cormesh" /\ Len(deck.path) >= 1 /\ IsFile(deck.before, deck.path)
        /\ Positive(last.tolerance)) => last.ok

\* C24: cormesh called on a path that is not a file, or with a threshold <= 0, raises
\* and leaves the files and directories as they were.
C24_BadCallCreatesNothing ==
    (deck.op = "cormesh"
        /\ (~IsFile(deck.before, deck.path) \/ RLe(last.tolerance, RInt(0)))) =>
        /\ ~last.ok
        /\ deck.disk = deck.before

\* C24 witness: cormesh was called with a negative threshold on a deck whose layers
\* it could have divided, after a run that had written a deck.
C24_Witness ==
    /\ deck.op = "cormesh"
    /\ IsFile(deck.before, deck.path)
    /\ RLt(last.tolerance, RInt(0))
    /\ \A i \in 1..Len(DeckRead.layer) :
          ~FloatRaises(DeckRead.layer[i])
              /\ ~DivisionRaises(StrToFloat(DeckRead.layer[i]), last.tolerance)
    /\ ~last.ok
    /\ Cardinality(DOMAIN deck.disk) = 2

\* the ids of the layers of a record after the split: the id of layer j for each of
\* the 1 + factors_dense[j] layers that replace it
RECURSIVE IdsAfterSplit(_, _)
IdsAfterSplit(ids, factors_dense) ==
    IF ids = << >> THEN << >>
    ELSE [i \in 1..(1 + Head(factors_dense)) |-> Head(ids)]
            \o IdsAfterSplit(Tail(ids), Tail(factors_dense))

\* the entry ids of a record, in order
RunIds(record) == [i \in 1..Len(record) |-> EntryId(record[i])]

\* C27: a record that covers exactly the layers read is written as a record that
\* expands to one id per written layer, every layer made from layer j with the id of
\* layer j, with the runs and their ids in the same order.
C27_RecordsFollowTheSplit ==
    CormeshReturned =>
        \A a \in 1..Len(DeckRead.FA_type) :
           Len(Expand(DeckRead.FA_type[a])) = Len(DeckRead.layer) =>
              /\ Len(Expand(DeckWritten.FA_type[a])) = DeckWritten.count
              /\ Expand(DeckWritten.FA_type[a])
                    = IdsAfterSplit(Expand(DeckRead.FA_type[a]),
                                    FactorsDense(HeightLayer(DeckRead), last.tolerance))
              /\ RunIds(DeckWritten.FA_type[a]) = RunIds(DeckRead.FA_type[a])

\* C27 witness: a deck was written for a record of two or more runs, one of them of
\* two or more layers; a layer after the first was split and another layer was not.
C27_Witness ==
    /\ CormeshReturned
    /\ \E a \in 1..Len(DeckRead.FA_type) :
          /\ Len(Expand(DeckRead.FA_type[a])) = Len(DeckRead.layer)
          /\ Len(DeckRead.FA_type[a]) >= 2
          /\ \E i \in 1..Len(DeckRead.FA_type[a]) : HasStar(DeckRead.FA_type[a][i])
    /\ \E j \in 2..Len(DeckRead.layer) :
          FactorsDense(HeightLayer(DeckRead), last.tolerance)[j] >= 1
    /\ \E j \in 1..Len(DeckRead.layer) :
          FactorsDense(HeightLayer(DeckRead), last.tolerance)[j] = 0

\* C28: the heights the written layer line denotes are the dense height list, and
\* their number is the count written before them.
C28_LayerLineSelfConsistent ==
    CormeshReturned =>
        /\ ExpandHeights(DeckWritten.layer)
              = HeightLayerDense(HeightLayer(DeckRead), last.tolerance)
        /\ Len(ExpandHeights(DeckWritten.layer)) = DeckWritten.count

=============================================================================
